---- MODULE Spec2Model ----
(***************************************************************************)
(* Model of src/app.py (trading-desk dashboard): the date adjustment and   *)
(* interval selection, fetch_stock_data, the per-ticker loop of            *)
(* update_dashboard, the moving average, the per-sector metrics and the    *)
(* correlation matrices of update_sector_analysis, and the refresh timer.  *)
(*                                                                         *)
(* Dates are day ordinals counted from 1970-01-01 (day 0, a Thursday).     *)
(* Prices are non-negative integers; a float result is an exact rational   *)
(* [k |-> "num", n, d] in lowest terms, or the IEEE value a numpy division *)
(* by zero produces ("inf", "-inf", "nan"). A correlation coefficient is   *)
(* kept as its sign and its exact square.                                  *)
(***************************************************************************)
EXTENDS Integers, Sequences, FiniteSets, TLC

VARIABLES
    \* ---- update_dashboard: inputs (the callback's State arguments)
    start_date, end_date, tickers, short_ma, long_ma, chart_type,
    \* ---- update_dashboard: locals
    adjusted_start, adjusted_end, days_diff, interval, xaxis_format, xaxis_title,
    ticker_list, stock_charts, stock_info_html, idx, df, pc,
    \* ---- update_dashboard: per position of ticker_list, what has happened to it
    sym,
    \* ---- update_sector_analysis: the metric dictionaries and the close series
    daily_perf, weekly_perf, monthly_perf, quarter_return,
    week_range, month_range, year_range, yearly_return,
    one_month_close, one_year_close,
    \* ---- update_sector_analysis: the two correlation matrices
    one_month_corr, one_year_corr,
    \* ---- update_sector_analysis: the rows of the summary table
    summary_data,
    \* ---- update_sector_analysis: loop position, the 1mo slice, per-sector history
    s_idx, s_pc, hist_1mo, sec,
    \* ---- add_moving_average on its own: the frame, the window, the position
    ma_df, ma_window, ma_pc,
    \* ---- the metrics of one sector on its own: the profile, the slice, the results
    m_info, m_hist, m_daily, m_weekly_ref, m_monthly_ref, m_weekly, m_monthly,
    m_return, m_range, m_pc,
    \* ---- the correlation of one dictionary of close series on its own
    c_close, c_corr, c_pc,
    \* ---- update_refresh_interval: the number input and the timer's interval (ms)
    refresh_input, refresh_interval,
    \* ---- fetch_stock_data on its own: the download, the interval, the result
    f_raw, f_interval, f_out, f_pc

dashVars == <<start_date, end_date, tickers, short_ma, long_ma, chart_type, adjusted_start, adjusted_end, days_diff,
              interval, xaxis_format, xaxis_title, ticker_list, stock_charts,
              stock_info_html, idx, df, pc, sym>>

metricMaps == <<daily_perf, weekly_perf, monthly_perf, quarter_return,
                week_range, month_range, year_range, yearly_return>>

sectorVars == <<metricMaps, one_month_close, one_year_close, one_month_corr, one_year_corr,
                summary_data, s_idx, s_pc, hist_1mo, sec>>

maVars == <<ma_df, ma_window, ma_pc>>

metricVars == <<m_info, m_hist, m_daily, m_weekly_ref, m_monthly_ref, m_weekly, m_monthly,
                m_return, m_range, m_pc>>

corrVars == <<c_close, c_corr, c_pc>>

refreshVars == <<refresh_input, refresh_interval>>

fetchVars == <<f_raw, f_interval, f_out, f_pc>>

vars == <<dashVars, sectorVars, maVars, metricVars, corrVars, refreshVars, fetchVars>>

nonDashVars == <<sectorVars, maVars, metricVars, corrVars, refreshVars, fetchVars>>
nonSectorVars == <<dashVars, maVars, metricVars, corrVars, refreshVars, fetchVars>>
nonMAVars == <<dashVars, sectorVars, metricVars, corrVars, refreshVars, fetchVars>>
nonMetricVars == <<dashVars, sectorVars, maVars, corrVars, refreshVars, fetchVars>>
nonCorrVars == <<dashVars, sectorVars, maVars, metricVars, refreshVars, fetchVars>>
nonRefreshVars == <<dashVars, sectorVars, maVars, metricVars, corrVars, fetchVars>>
nonFetchVars == <<dashVars, sectorVars, maVars, metricVars, corrVars, refreshVars>>

----------------------------------------------------------------------------
\* Bounds of the model.

\* dates requested are day ordinals 0..MaxDay (0 = Thu 1970-01-01, 2 = Sat, 3 = Sun)
MaxDay == 6
\* at most this many comma-separated tokens in the free-text input
MaxTickers == 2
\* add_moving_average alone: closes 0..MaxClose, at most MaxLen rows, windows 1..MaxWindow
MaxClose == 2
MaxLen == 3
MaxWindow == 3
\* the metrics alone: at most MaxBars observations in a history slice
MaxBars == 3
\* the refresh input: between -MaxMinutes and MaxMinutes minutes, in half minutes
MaxMinutes == 30

\* the tokens of the free-text input, as tickers.split(',') yields them
RawTokens == {" aaa ", "BBB"}

Days == 0..MaxDay

RECURSIVE SeqsUpTo(_, _)
SeqsUpTo(S, n) ==
    IF n = 0 THEN {<<>>}
    ELSE LET shorter == SeqsUpTo(S, n - 1)
         IN  shorter \cup {Append(s, x) : s \in {t \in shorter : Len(t) = n - 1}, x \in S}

\* the elements of a set of numbers, in ascending order
RECURSIVE Ascending(_)
Ascending(T) ==
    IF T = {} THEN <<>>
    ELSE LET lo == CHOOSE x \in T : \A y \in T : x <= y
         IN  <<lo>> \o Ascending(T \ {lo})

----------------------------------------------------------------------------
\* adjust_to_trading_day and the interval policy.

\* date.weekday(): Monday = 0 .. Sunday = 6; 1970-01-01 was a Thursday (3)
Weekday(d) == (d + 3) % 7

adjust_RollForward(d) ==
    IF Weekday(d) = 5 THEN d + 2
    ELSE IF Weekday(d) = 6 THEN d + 1
    ELSE d

adjust_SundayOneDay(d) ==
    IF Weekday(d) = 5 THEN d - 1
    ELSE IF Weekday(d) = 6 THEN d - 1
    ELSE d

adjust_to_trading_day(d) ==
    IF Weekday(d) = 5 THEN d - 1
    ELSE IF Weekday(d) = 6 THEN d - 2
    ELSE d

\* interval = '15m' if days_diff >= 5 else '1m'
SelectInterval_Off(dd) == IF dd > 5 THEN "15m" ELSE "1m"

SelectInterval(dd) == IF dd >= 5 THEN "15m" ELSE "1m"

\* xaxis_format = '%H:%M' if days_diff < 5 else '%Y-%m-%d'
XAxisFormat(dd) == IF dd < 5 THEN "%H:%M" ELSE "%Y-%m-%d"

\* xaxis_title = 'Time' if days_diff < 5 else 'Date'
XAxisTitle(dd) == IF dd < 5 THEN "Time" ELSE "Date"

----------------------------------------------------------------------------
\* Float results: exact rationals in lowest terms, or what a numpy float64
\* division by zero yields.

Abs(x) == IF x < 0 THEN -x ELSE x

RECURSIVE GCD(_, _)
GCD(a, b) == IF b = 0 THEN a ELSE GCD(b, a % b)

Rat(n, d) ==
    LET g == GCD(Abs(n), d)
    IN  [k |-> "num", n |-> n \div g, d |-> d \div g]

Zero == Rat(0, 1)
Inf == [k |-> "inf", n |-> 0, d |-> 0]
NegInf == [k |-> "-inf", n |-> 0, d |-> 0]
NaN == [k |-> "nan", n |-> 0, d |-> 0]

IsFinite(v) == v.k = "num"

\* x / y on float64 scalars, y >= 0: a zero divisor gives inf, -inf or nan
\* (numpy warns, it does not raise)
FloatDiv(x, y) ==
    IF y = 0
    THEN IF x > 0 THEN Inf ELSE IF x < 0 THEN NegInf ELSE NaN
    ELSE Rat(x, y)

----------------------------------------------------------------------------
\* add_moving_average: df['Close'].rolling(window, min_periods=1).mean()

\* pandas' rolling mean: one pass, adding the entering observation and
\* removing the one that leaves the window, the mean taken over the
\* observations held
RECURSIVE RollFrom(_, _, _, _, _, _)
RollFrom(close, window, i, sum_x, nobs, out) ==
    IF i > Len(close) THEN out
    ELSE LET leaving == i > window
             sum1 == sum_x + close[i] - (IF leaving THEN close[i - window] ELSE 0)
             nobs1 == nobs + 1 - (IF leaving THEN 1 ELSE 0)
         IN  RollFrom(close, window, i + 1, sum1, nobs1, Append(out, Rat(sum1, nobs1)))

RollingMean_NoRemove(close, window) ==
    LET RECURSIVE Cum(_, _, _)
        Cum(i, sum_x, out) ==
            IF i > Len(close) THEN out
            ELSE Cum(i + 1, sum_x + close[i], Append(out, Rat(sum_x + close[i], i)))
    IN  Cum(1, 0, <<>>)

RollingMean(close, window) == RollFrom(close, window, 1, 0, 0, <<>>)

add_moving_average_Replace(frame, window, col_name_prefix) ==
    [frame EXCEPT !.ma = (<<col_name_prefix, window>> :> RollingMean(frame.Close, window))]

\* df[f"{col_name_prefix}_{window}"] = ...; return df
add_moving_average(frame, window, col_name_prefix) ==
    [frame EXCEPT !.ma = (<<col_name_prefix, window>> :> RollingMean(frame.Close, window)) @@ @]

----------------------------------------------------------------------------
\* update_dashboard

DEFAULT_SHORT == 20
DEFAULT_LONG == 50

\* t.strip().upper() on the tokens of RawTokens
StripUpper(t) == IF t = " aaa " THEN "AAA" ELSE t

\* the moving-average inputs: 0 stands for an absent (falsy) value
WindowInputs == {<<0, 0>>, <<2, 2>>, <<1, 2>>}

OHLCV == {"Open", "High", "Low", "Close", "Volume"}

NoColumns == [c \in {} |-> <<>>]

\* a table of yf.download after reset_index: the closes of its rows, the
\* first-level labels of its columns, whether the labels have several levels,
\* and the timestamps as wall-clock hours with their time zone ("naive": none)
RawTable(close, columns, tz, multi) ==
    [Close |-> close, columns |-> columns, ma |-> NoColumns,
     Date |-> [j \in 1..Len(close) |-> 13 + j], tz |-> tz, multi |-> multi]

\* what yf.download may return for one ticker
RawTables ==
    { RawTable(<<>>, {}, "naive", FALSE),
      RawTable(<<2, 4, 3>>, OHLCV \cup {"Datetime"}, "UTC", TRUE),
      RawTable(<<2, 4, 3>>, OHLCV \cup {"index"}, "naive", FALSE),
      RawTable(<<2, 4, 3>>, (OHLCV \ {"Volume"}) \cup {"Date"}, "naive", FALSE),
      RawTable(<<2, 4, 3>>, (OHLCV \ {"Open"}) \cup {"Datetime"}, "naive", TRUE) }

NoFrame == [Close |-> <<>>, columns |-> {"none"}, ma |-> NoColumns,
            Date |-> <<>>, tz |-> "naive", multi |-> FALSE]

\* data.empty
IsEmpty(data) == data.Date = <<>>

\* data.rename(columns={'Datetime': 'Date'})
RenameDatetime(cols) ==
    IF "Datetime" \in cols THEN (cols \ {"Datetime"}) \cup {"Date"} ELSE cols

\* hours east of UTC (US/Eastern: standard time)
UtcOffset(tz) == IF tz = "US/Eastern" THEN 0 - 5 ELSE 0

\* Series.dt.tz_localize('UTC') of naive timestamps: same wall clock, zone UTC
tz_localize(data, tz) == [data EXCEPT !.tz = tz]

\* Series.dt.tz_convert(tz): same instants, the wall clock of the new zone
tz_convert(data, tz) ==
    [data EXCEPT !.Date = [j \in 1..Len(data.Date) |->
                              data.Date[j] - UtcOffset(data.tz) + UtcOffset(tz)],
                 !.tz = tz]

fetch_stock_data_RaiseOnEmpty(data, granularity) ==
    IF IsEmpty(data) \/ "Date" \notin RenameDatetime(data.columns)
    THEN [raised |-> TRUE, data |-> NoFrame]
    ELSE [raised |-> FALSE,
          data |-> [data EXCEPT !.columns = RenameDatetime(@), !.multi = FALSE]]

\* fetch_stock_data, lines 63-77: what it returns for the download `data`,
\* or that it raises (the KeyError of data['Date'] at line 70)
fetch_stock_data(data, granularity) ==
    IF IsEmpty(data) THEN [raised |-> FALSE, data |-> data]
    ELSE IF "Date" \notin RenameDatetime(data.columns)
    THEN [raised |-> TRUE, data |-> NoFrame]
    ELSE LET renamed == [data EXCEPT !.columns = RenameDatetime(@), !.multi = FALSE]
             aware == IF renamed.tz = "naive" THEN tz_localize(renamed, "UTC") ELSE renamed
         IN  [raised |-> FALSE,
              data |-> IF granularity = "1m" THEN tz_convert(aware, "US/Eastern")
                       ELSE renamed]

NewSym == [stage |-> "Requested", failed_at |-> "none", downloads |-> 0,
           info_calls |-> 0, interval |-> "none"]

\* the loop moves to the next ticker, or returns after the last one (line 780)
NextTicker ==
    /\ idx' = idx + 1
    /\ pc' = IF idx + 1 > Len(ticker_list) THEN "done" ELSE "fetch"
    /\ df' = NoFrame

ExceptHandler_Abort(s, where) ==
    /\ stock_info_html' = Append(stock_info_html,
                                 [pos |-> idx, ticker |-> ticker_list[idx], kind |-> "error"])
    /\ sym' = [s EXCEPT ![idx].stage = "Failed", ![idx].failed_at = where]
    /\ idx' = idx
    /\ pc' = "done"
    /\ df' = NoFrame

ExceptHandler_Retry(s, where) ==
    /\ stock_info_html' = Append(stock_info_html,
                                 [pos |-> idx, ticker |-> ticker_list[idx], kind |-> "error"])
    /\ sym' = [s EXCEPT ![idx].stage = "Failed", ![idx].failed_at = where]
    /\ idx' = idx
    /\ pc' = "fetch"
    /\ df' = NoFrame

\* except Exception as e: stock_info_html.append(error div)   (lines 772-778)
ExceptHandler(s, where) ==
    /\ stock_info_html' = Append(stock_info_html,
                                 [pos |-> idx, ticker |-> ticker_list[idx], kind |-> "error"])
    /\ sym' = [s EXCEPT ![idx].stage = "Failed", ![idx].failed_at = where]
    /\ NextTicker

\* lines 581-597
Begin ==
    /\ pc = "start"
    /\ IF tickers = <<>>
       THEN /\ pc' = "done"
            /\ UNCHANGED <<adjusted_start, adjusted_end, days_diff, interval, xaxis_format,
                           xaxis_title, ticker_list, sym>>
       ELSE /\ adjusted_start' = adjust_to_trading_day(start_date)
            /\ adjusted_end' = adjust_to_trading_day(end_date)
            /\ days_diff' = adjusted_end' - adjusted_start'
            /\ interval' = SelectInterval(days_diff')
            /\ xaxis_format' = XAxisFormat(days_diff')
            /\ xaxis_title' = XAxisTitle(days_diff')
            /\ ticker_list' = [k \in 1..Len(tickers) |-> StripUpper(tickers[k])]
            /\ sym' = [k \in 1..Len(tickers) |-> NewSym]
            /\ pc' = "fetch"
    /\ UNCHANGED <<start_date, end_date, tickers, short_ma, long_ma, chart_type, stock_charts,
                   stock_info_html, idx, df>>
    /\ UNCHANGED nonDashVars

\* fetch_stock_data, lines 52-61: the call of yf.download
Download ==
    /\ pc = "fetch"
    /\ LET s == [sym EXCEPT ![idx].downloads = @ + 1, ![idx].interval = interval]
       IN  \/ /\ ExceptHandler(s, "fetch")
              /\ UNCHANGED <<stock_charts>>
           \/ \E raw \in RawTables :
                /\ df' = raw
                /\ sym' = [s EXCEPT ![idx].stage = "Fetched"]
                /\ pc' = "normalize"
                /\ UNCHANGED <<stock_charts, stock_info_html, idx>>
    /\ UNCHANGED <<start_date, end_date, tickers, short_ma, long_ma, chart_type, adjusted_start,
                   adjusted_end, days_diff, interval, xaxis_format, xaxis_title, ticker_list>>
    /\ UNCHANGED nonDashVars

\* fetch_stock_data, lines 63-77, and the empty test of lines 602-603
Normalize ==
    /\ pc = "normalize"
    /\ IF fetch_stock_data(df, interval).raised
       THEN ExceptHandler(sym, "normalize")
       ELSE IF IsEmpty(fetch_stock_data(df, interval).data)
       THEN /\ sym' = [sym EXCEPT ![idx].stage = "Empty"]
            /\ NextTicker
            /\ UNCHANGED <<stock_info_html>>
       ELSE /\ df' = fetch_stock_data(df, interval).data
            /\ sym' = [sym EXCEPT ![idx].stage = "Normalized"]
            /\ pc' = "chart"
            /\ UNCHANGED <<stock_info_html, idx>>
    /\ UNCHANGED <<start_date, end_date, tickers, short_ma, long_ma, chart_type, adjusted_start,
                   adjusted_end, days_diff, interval, xaxis_format, xaxis_title, ticker_list,
                   stock_charts>>
    /\ UNCHANGED nonDashVars

\* the columns read by lines 609-683: Close by the moving averages, then the
\* candlestick's or the line's columns, then Volume
ColumnsRead(chart) ==
    IF chart = "candle" THEN {"Date", "Open", "High", "Low", "Close", "Volume"}
    ELSE {"Date", "Close", "Volume"}

\* lines 605-722: the moving averages and the chart
BuildChart ==
    /\ pc = "chart"
    /\ LET s_window == IF short_ma # 0 THEN short_ma ELSE DEFAULT_SHORT
           l_window == IF long_ma # 0 THEN long_ma ELSE DEFAULT_LONG
       IN  IF ~(ColumnsRead(chart_type) \subseteq df.columns)
           THEN /\ ExceptHandler(sym, "analyze")
                /\ UNCHANGED <<stock_charts>>
           ELSE /\ df' = add_moving_average(add_moving_average(df, s_window, "Short_MA"),
                                            l_window, "Long_MA")
                /\ stock_charts' = Append(stock_charts,
                                          [pos |-> idx, ticker |-> ticker_list[idx]])
                /\ pc' = "info"
                /\ UNCHANGED <<sym, stock_info_html, idx>>
    /\ UNCHANGED <<start_date, end_date, tickers, short_ma, long_ma, chart_type, adjusted_start,
                   adjusted_end, days_diff, interval, xaxis_format, xaxis_title, ticker_list>>
    /\ UNCHANGED nonDashVars

\* lines 727-770: the profile fetch (yf.Ticker(ticker).info) and the info card
BuildInfo ==
    /\ pc = "info"
    /\ LET s == [sym EXCEPT ![idx].info_calls = @ + 1]
       IN  \/ ExceptHandler(s, "info")
           \/ /\ stock_info_html' = Append(stock_info_html,
                                           [pos |-> idx, ticker |-> ticker_list[idx],
                                            kind |-> "card"])
              /\ sym' = [s EXCEPT ![idx].stage = "Analyzed"]
              /\ NextTicker
    /\ UNCHANGED <<start_date, end_date, tickers, short_ma, long_ma, chart_type, adjusted_start,
                   adjusted_end, days_diff, interval, xaxis_format, xaxis_title, ticker_list,
                   stock_charts>>
    /\ UNCHANGED nonDashVars

NextDashboard == Begin \/ Download \/ Normalize \/ BuildChart \/ BuildInfo

----------------------------------------------------------------------------
\* update_sector_analysis: the metrics of one sector.

\* info.get(...) of a missing field
None == -1

WEEKLY_DAYS == 7
MONTHLY_DAYS == 30

Bar(ts, close, low, high) == [ts |-> ts, Close |-> close, Low |-> low, High |-> high]

\* (new - old) / old * 100 on float64 scalars
PctChange(new, old) == FloatDiv((new - old) * 100, old)

\* lines 826-831
DailyPerf(current, previous_close) ==
    IF current # None /\ previous_close # None /\ previous_close # 0
    THEN Rat((current - previous_close) * 100, previous_close)
    ELSE Zero

\* hist[hist.index <= desired]
RowsAtOrBefore(hist, desired) ==
    LET AtOrBefore(b) == b.ts <= desired IN SelectSeq(hist, AtOrBefore)

LookbackRow_Strict(hist, days) ==
    LET desired == hist[Len(hist)].ts - days
        Before(b) == b.ts < desired
        rows == SelectSeq(hist, Before)
    IN  IF rows # <<>> THEN rows[Len(rows)] ELSE hist[1]

\* lines 844-849 and 853-858: the reference row of a non-empty slice
LookbackRow(hist, days) ==
    LET desired == hist[Len(hist)].ts - days
        rows == RowsAtOrBefore(hist, desired)
    IN  IF rows # <<>> THEN rows[Len(rows)] ELSE hist[1]

\* lines 850 and 859
LookbackPerf(hist, days) ==
    PctChange(hist[Len(hist)].Close, LookbackRow(hist, days).Close)

\* lines 863-868 and 893-895: first close against last close
FirstLastReturn(hist) ==
    IF hist # <<>> THEN PctChange(hist[Len(hist)].Close, hist[1].Close) ELSE Zero

MinLow(hist) == CHOOSE v \in {hist[j].Low : j \in 1..Len(hist)} :
                    \A j \in 1..Len(hist) : v <= hist[j].Low

MaxHigh(hist) == CHOOSE v \in {hist[j].High : j \in 1..Len(hist)} :
                     \A j \in 1..Len(hist) : v >= hist[j].High

\* lines 872-877, 880-885, 889-892
RangePct(hist) ==
    IF hist # <<>>
    THEN FloatDiv((MaxHigh(hist) - MinLow(hist)) * 100, MinLow(hist))
    ELSE Zero

\* hist["Close"]: the close series, indexed by timestamp
CloseSeries(hist) == [j \in 1..Len(hist) |-> [ts |-> hist[j].ts, Close |-> hist[j].Close]]

----------------------------------------------------------------------------
\* update_sector_analysis: the loop over sectors_etfs (lines 820-921).

\* the first entries of sectors_etfs, in the mapping's order
SECTORS == <<"Technology", "Healthcare">>

\* what ticker.info may hold
LoopInfos == { [open |-> None, prev |-> None], [open |-> 3, prev |-> 0],
               [open |-> 3, prev |-> 2] }

\* what ticker.history may return inside the loop
LoopHistories == { <<>>, <<Bar(0, 2, 1, 3), Bar(8, 3, 2, 4)>> }

EmptyDict == [c \in {} |-> Zero]

Put(dict, key, value) == (key :> value) @@ dict

NewSector == [stage |-> "Requested", fetches |-> 0]

Fetching(s) == [s EXCEPT ![s_idx].fetches = @ + 1]

\* the for loop takes the next sector, or ends
NextSector ==
    /\ s_idx' = s_idx + 1
    /\ s_pc' = IF s_idx + 1 > Len(SECTORS) THEN "after_loop" ELSE "info"
    /\ hist_1mo' = <<>>

SectorExcept_KeepDaily ==
    LET sector == SECTORS[s_idx] IN
    /\ UNCHANGED daily_perf
    /\ weekly_perf' = Put(weekly_perf, sector, Zero)
    /\ monthly_perf' = Put(monthly_perf, sector, Zero)
    /\ quarter_return' = Put(quarter_return, sector, Zero)
    /\ week_range' = Put(week_range, sector, Zero)
    /\ month_range' = Put(month_range, sector, Zero)
    /\ year_range' = Put(year_range, sector, Zero)
    /\ yearly_return' = Put(yearly_return, sector, Zero)
    /\ one_month_close' = Put(one_month_close, sector, <<>>)
    /\ one_year_close' = Put(one_year_close, sector, <<>>)
    /\ sec' = [Fetching(sec) EXCEPT ![s_idx].stage = "Failed"]
    /\ NextSector

\* lines 917-921: every metric of the sector 0.0, both close series empty
SectorExcept ==
    LET sector == SECTORS[s_idx] IN
    /\ daily_perf' = Put(daily_perf, sector, Zero)
    /\ weekly_perf' = Put(weekly_perf, sector, Zero)
    /\ monthly_perf' = Put(monthly_perf, sector, Zero)
    /\ quarter_return' = Put(quarter_return, sector, Zero)
    /\ week_range' = Put(week_range, sector, Zero)
    /\ month_range' = Put(month_range, sector, Zero)
    /\ year_range' = Put(year_range, sector, Zero)
    /\ yearly_return' = Put(yearly_return, sector, Zero)
    /\ one_month_close' = Put(one_month_close, sector, <<>>)
    /\ one_year_close' = Put(one_year_close, sector, <<>>)
    /\ sec' = [Fetching(sec) EXCEPT ![s_idx].stage = "Failed"]
    /\ NextSector

\* the callback is invoked (lines 790-818)
SectorBegin ==
    /\ s_pc = "start"
    /\ s_pc' = "info"
    /\ UNCHANGED <<metricMaps, one_month_close, one_year_close, s_idx, hist_1mo, sec>>
    /\ UNCHANGED <<one_month_corr, one_year_corr, summary_data, nonSectorVars>>

\* lines 822-832: ticker.info and the daily performance
SectorInfo ==
    /\ s_pc = "info"
    /\ \/ SectorExcept
       \/ \E info \in LoopInfos :
            /\ daily_perf' = Put(daily_perf, SECTORS[s_idx], DailyPerf(info.open, info.prev))
            /\ sec' = [Fetching(sec) EXCEPT ![s_idx].stage = "Fetched"]
            /\ s_pc' = "hist_1mo"
            /\ UNCHANGED <<weekly_perf, monthly_perf, quarter_return, week_range, month_range,
                           year_range, yearly_return, one_month_close, one_year_close,
                           s_idx, hist_1mo>>
    /\ UNCHANGED <<one_month_corr, one_year_corr, summary_data, nonSectorVars>>

\* lines 835-859: the 1mo history, the weekly and the monthly performance
SectorHist1mo ==
    /\ s_pc = "hist_1mo"
    /\ \/ SectorExcept
       \/ \E hist \in LoopHistories :
            /\ hist_1mo' = hist
            /\ weekly_perf' = Put(weekly_perf, SECTORS[s_idx],
                                  IF hist = <<>> THEN Zero ELSE LookbackPerf(hist, WEEKLY_DAYS))
            /\ monthly_perf' = Put(monthly_perf, SECTORS[s_idx],
                                   IF hist = <<>> THEN Zero ELSE LookbackPerf(hist, MONTHLY_DAYS))
            /\ sec' = Fetching(sec)
            /\ s_pc' = "hist_3mo"
            /\ UNCHANGED <<daily_perf, quarter_return, week_range, month_range, year_range,
                           yearly_return, one_month_close, one_year_close, s_idx>>
    /\ UNCHANGED <<one_month_corr, one_year_corr, summary_data, nonSectorVars>>

\* lines 862-868: the 3mo history and the quarter return
SectorHist3mo ==
    /\ s_pc = "hist_3mo"
    /\ \/ SectorExcept
       \/ \E hist \in LoopHistories :
            /\ quarter_return' = Put(quarter_return, SECTORS[s_idx], FirstLastReturn(hist))
            /\ sec' = Fetching(sec)
            /\ s_pc' = "hist_1wk"
            /\ UNCHANGED <<daily_perf, weekly_perf, monthly_perf, week_range, month_range,
                           year_range, yearly_return, one_month_close, one_year_close,
                           s_idx, hist_1mo>>
    /\ UNCHANGED <<one_month_corr, one_year_corr, summary_data, nonSectorVars>>

\* lines 871-885: the 1wk history and the week range, then the month range
\* from the 1mo slice
SectorHist1wk ==
    /\ s_pc = "hist_1wk"
    /\ \/ SectorExcept
       \/ \E hist \in LoopHistories :
            /\ week_range' = Put(week_range, SECTORS[s_idx], RangePct(hist))
            /\ month_range' = Put(month_range, SECTORS[s_idx], RangePct(hist_1mo))
            /\ sec' = Fetching(sec)
            /\ s_pc' = "hist_1y"
            /\ UNCHANGED <<daily_perf, weekly_perf, monthly_perf, quarter_return, year_range,
                           yearly_return, one_month_close, one_year_close, s_idx, hist_1mo>>
    /\ UNCHANGED <<one_month_corr, one_year_corr, summary_data, nonSectorVars>>

\* lines 888-898: the 1y history, the year range and the yearly return
SectorHist1y ==
    /\ s_pc = "hist_1y"
    /\ \/ SectorExcept
       \/ \E hist \in LoopHistories :
            /\ year_range' = Put(year_range, SECTORS[s_idx], RangePct(hist))
            /\ yearly_return' = Put(yearly_return, SECTORS[s_idx], FirstLastReturn(hist))
            /\ sec' = Fetching(sec)
            /\ s_pc' = "corr_1mo"
            /\ UNCHANGED <<daily_perf, weekly_perf, monthly_perf, quarter_return, week_range,
                           month_range, one_month_close, one_year_close, s_idx, hist_1mo>>
    /\ UNCHANGED <<one_month_corr, one_year_corr, summary_data, nonSectorVars>>

\* lines 901-905: the 1mo closes for the correlation
SectorCorr1mo ==
    /\ s_pc = "corr_1mo"
    /\ \/ SectorExcept
       \/ \E hist \in LoopHistories :
            /\ one_month_close' = Put(one_month_close, SECTORS[s_idx], CloseSeries(hist))
            /\ sec' = Fetching(sec)
            /\ s_pc' = "corr_1y"
            /\ UNCHANGED <<metricMaps, one_year_close, s_idx, hist_1mo>>
    /\ UNCHANGED <<one_month_corr, one_year_corr, summary_data, nonSectorVars>>

\* lines 908-916: the 1y closes for the correlation; the sector is done
SectorCorr1y ==
    /\ s_pc = "corr_1y"
    /\ \/ SectorExcept
       \/ \E hist \in LoopHistories :
            /\ one_year_close' = Put(one_year_close, SECTORS[s_idx], CloseSeries(hist))
            /\ sec' = [Fetching(sec) EXCEPT ![s_idx].stage = "Analyzed"]
            /\ NextSector
            /\ UNCHANGED <<metricMaps, one_month_close>>
    /\ UNCHANGED <<one_month_corr, one_year_corr, summary_data, nonSectorVars>>

----------------------------------------------------------------------------
\* update_sector_analysis: the correlation matrices (lines 976-1023).

\* the timestamps of a close series
Stamps(series) == {series[j].ts : j \in 1..Len(series)}

\* series[t]
CloseAt(series, t) == series[CHOOSE j \in 1..Len(series) : series[j].ts = t].Close

NonEmptyColumns_All(close, order) ==
    LET Kept(sector) == sector \in DOMAIN close
    IN  SelectSeq(order, Kept)

\* {sector: series for sector, series in close.items() if not series.empty}:
\* the keys in insertion order (order), without those of an empty series
NonEmptyColumns(close, order) ==
    LET Kept(sector) == sector \in DOMAIN close /\ close[sector] # <<>>
    IN  SelectSeq(order, Kept)

DataFrame_InnerJoin(close, columns) ==
    [columns |-> columns,
     index |-> {t \in UNION {Stamps(close[columns[k]]) : k \in 1..Len(columns)} :
                   \A k \in 1..Len(columns) : t \in Stamps(close[columns[k]])},
     data |-> [k \in 1..Len(columns) |->
                  [t \in Stamps(close[columns[k]]) |-> CloseAt(close[columns[k]], t)]]]

\* pd.DataFrame(dict of Series): the index is the union of the series'
\* timestamps; a column has a value at the timestamps of its own series and
\* is missing (NaN) at the others
DataFrame(close, columns) ==
    [columns |-> columns,
     index |-> UNION {Stamps(close[columns[k]]) : k \in 1..Len(columns)},
     data |-> [k \in 1..Len(columns) |->
                  [t \in Stamps(close[columns[k]]) |-> CloseAt(close[columns[k]], t)]]]

\* DataFrame.empty
IsEmptyFrame(frame) == frame.columns = <<>> \/ frame.index = {}

RECURSIVE SeqSum(_)
SeqSum(s) == IF s = <<>> THEN 0 ELSE Head(s) + SeqSum(Tail(s))

Products(xs, ys) == [j \in 1..Len(xs) |-> xs[j] * ys[j]]

Sign(x) == IF x > 0 THEN 1 ELSE IF x < 0 THEN -1 ELSE 0

\* the coefficient cov / sqrt(var_x * var_y), kept exactly as its sign and
\* its square cov^2 / (var_x * var_y)
Coefficient(cov, var_xy) == [k |-> "num", sign |-> Sign(cov), sq |-> Rat(cov * cov, var_xy)]

One == Coefficient(1, 1)

nancorr_Uncentered(xs, ys) ==
    LET sxx == SeqSum(Products(xs, xs))
        syy == SeqSum(Products(ys, ys))
        sxy == SeqSum(Products(xs, ys))
    IN  IF Len(xs) = 0 \/ sxx * syy = 0 THEN NaN ELSE Coefficient(sxy, sxx * syy)

nancorr_ZeroVarianceIsOne(xs, ys) ==
    LET n == Len(xs)
        sxx == n * SeqSum(Products(xs, xs)) - SeqSum(xs) * SeqSum(xs)
        syy == n * SeqSum(Products(ys, ys)) - SeqSum(ys) * SeqSum(ys)
        sxy == n * SeqSum(Products(xs, ys)) - SeqSum(xs) * SeqSum(ys)
    IN  IF n = 0 THEN NaN
        ELSE IF sxx * syy = 0 THEN One
        ELSE Coefficient(sxy, sxx * syy)

\* Pearson's coefficient of the paired observations (pandas' nancorr with
\* min_periods = 1): NaN without observations or when a variance is zero
nancorr(xs, ys) ==
    LET n == Len(xs)
        sxx == n * SeqSum(Products(xs, xs)) - SeqSum(xs) * SeqSum(xs)
        syy == n * SeqSum(Products(ys, ys)) - SeqSum(ys) * SeqSum(ys)
        sxy == n * SeqSum(Products(xs, ys)) - SeqSum(xs) * SeqSum(ys)
    IN  IF n = 0 \/ sxx * syy = 0 THEN NaN ELSE Coefficient(sxy, sxx * syy)

\* DataFrame.corr(): for every pair of columns, the coefficient over the
\* rows where both columns have a value
Corr(frame) ==
    LET K == 1..Len(frame.columns)
        Rows(a, b) == Ascending({t \in frame.index :
                                    t \in DOMAIN frame.data[a] /\ t \in DOMAIN frame.data[b]})
        Col(a, rows) == [j \in 1..Len(rows) |-> frame.data[a][rows[j]]]
    IN  [present |-> TRUE,
         index |-> frame.columns,
         values |-> [p \in K \X K |->
                        nancorr(Col(p[1], Rows(p[1], p[2])), Col(p[2], Rows(p[1], p[2])))]]

\* go.Figure(): no matrix is computed
NoMatrix == [present |-> FALSE, index |-> <<>>, values |-> <<>>]

CorrelationHeatmap_NeedsTwo(close, order) ==
    LET frame == DataFrame(close, NonEmptyColumns(close, order))
    IN  IF Len(frame.columns) < 2 THEN NoMatrix ELSE Corr(frame)

\* lines 978-999 and 1002-1023
CorrelationHeatmap(close, order) ==
    LET frame == DataFrame(close, NonEmptyColumns(close, order))
    IN  IF ~IsEmptyFrame(frame) THEN Corr(frame) ELSE NoMatrix

\* lines 976-1028: both heat maps are built after the loop
BuildHeatmaps ==
    /\ s_pc = "after_loop"
    /\ one_month_corr' = CorrelationHeatmap(one_month_close, SECTORS)
    /\ one_year_corr' = CorrelationHeatmap(one_year_close, SECTORS)
    /\ s_pc' = "heatmaps"
    /\ UNCHANGED <<metricMaps, one_month_close, one_year_close, summary_data, s_idx,
                   hist_1mo, sec>>
    /\ UNCHANGED nonSectorVars

\* sectors_etfs[sector]
ETF(sector) == IF sector = "Technology" THEN "XLK"
               ELSE IF sector = "Healthcare" THEN "XLV"
               ELSE "XLF"

\* dict.get(key, 0)
Get(dict, key) == IF key \in DOMAIN dict THEN dict[key] ELSE Zero

\* the integer nearest to n / d (d > 0), the even one of two equally near
RoundHalfEven(n, d) ==
    LET q == n \div d
        r == n - q * d
    IN  IF 2 * r < d THEN q
        ELSE IF 2 * r > d THEN q + 1
        ELSE IF q % 2 = 0 THEN q ELSE q + 1

\* f"{v:.2f}%": the value in hundredths, or the text of a value not finite
Format2f(v) ==
    IF IsFinite(v) THEN [k |-> "fixed", hundredths |-> RoundHalfEven(v.n * 100, v.d)]
    ELSE [k |-> v.k]

\* lines 1033-1044: the row of one sector
SummaryRow(sector) ==
    [Sector |-> sector, Ticker |-> ETF(sector),
     Daily |-> Format2f(Get(daily_perf, sector)),
     Weekly |-> Format2f(Get(weekly_perf, sector)),
     Monthly |-> Format2f(Get(monthly_perf, sector)),
     Quarter |-> Format2f(Get(quarter_return, sector)),
     Yearly |-> Format2f(Get(yearly_return, sector)),
     WeekRange |-> Format2f(Get(week_range, sector)),
     MonthRange |-> Format2f(Get(month_range, sector)),
     YearRange |-> Format2f(Get(year_range, sector))]

\* lines 1030-1045: the summary table, one row for each entry of sectors_etfs
BuildSummary ==
    /\ s_pc = "heatmaps"
    /\ summary_data' = [k \in 1..Len(SECTORS) |-> SummaryRow(SECTORS[k])]
    /\ s_pc' = "done"
    /\ UNCHANGED <<metricMaps, one_month_close, one_year_close, one_month_corr,
                   one_year_corr, s_idx, hist_1mo, sec>>
    /\ UNCHANGED nonSectorVars

NextSectorAnalysis ==
    \/ SectorBegin \/ SectorInfo \/ SectorHist1mo \/ SectorHist3mo \/ SectorHist1wk
    \/ SectorHist1y \/ SectorCorr1mo \/ SectorCorr1y \/ BuildHeatmaps \/ BuildSummary

----------------------------------------------------------------------------
\* add_moving_average applied to one frame.

ApplyMA ==
    /\ ma_pc = "start"
    /\ ma_df' = add_moving_average(ma_df, ma_window, "MA")
    /\ ma_pc' = "done"
    /\ UNCHANGED <<ma_window, nonMAVars>>

----------------------------------------------------------------------------
\* The metrics of lines 825-898 applied to one profile and one history slice.

\* timestamps (days) around the two lookback horizons
DayGrid == {0, 1, WEEKLY_DAYS, WEEKLY_DAYS + 1, MONTHLY_DAYS + 1}

Prices == {0, 1, 2}

\* Low <= Close <= High
PriceTriples == {t \in Prices \X Prices \X Prices : t[2] <= t[1] /\ t[1] <= t[3]}

\* a slice ticker.history may return: timestamps ascending and distinct
Slice(stamps, prices) ==
    [j \in 1..Len(stamps) |-> Bar(stamps[j], prices[j][1], prices[j][2], prices[j][3])]

StampSets == {U \in SUBSET DayGrid : Cardinality(U) <= MaxBars}

NoBar == Bar(None, None, None, None)

\* lines 826-832
ApplyDaily ==
    /\ m_pc = "daily"
    /\ m_daily' = DailyPerf(m_info.open, m_info.prev)
    /\ m_pc' = "weekly_monthly"
    /\ UNCHANGED <<m_info, m_hist, m_weekly_ref, m_monthly_ref, m_weekly, m_monthly,
                   m_return, m_range>>
    /\ UNCHANGED nonMetricVars

\* lines 836-859
ApplyLookbacks ==
    /\ m_pc = "weekly_monthly"
    /\ IF m_hist = <<>>
       THEN /\ m_weekly' = Zero
            /\ m_monthly' = Zero
            /\ UNCHANGED <<m_weekly_ref, m_monthly_ref>>
       ELSE /\ m_weekly_ref' = LookbackRow(m_hist, WEEKLY_DAYS)
            /\ m_weekly' = LookbackPerf(m_hist, WEEKLY_DAYS)
            /\ m_monthly_ref' = LookbackRow(m_hist, MONTHLY_DAYS)
            /\ m_monthly' = LookbackPerf(m_hist, MONTHLY_DAYS)
    /\ m_pc' = "return"
    /\ UNCHANGED <<m_info, m_hist, m_daily, m_return, m_range>>
    /\ UNCHANGED nonMetricVars

\* lines 863-868 (and 893-895)
ApplyReturn ==
    /\ m_pc = "return"
    /\ m_return' = FirstLastReturn(m_hist)
    /\ m_pc' = "range"
    /\ UNCHANGED <<m_info, m_hist, m_daily, m_weekly_ref, m_monthly_ref, m_weekly,
                   m_monthly, m_range>>
    /\ UNCHANGED nonMetricVars

\* lines 872-877 (and 880-885, 889-892)
ApplyRange ==
    /\ m_pc = "range"
    /\ m_range' = RangePct(m_hist)
    /\ m_pc' = "done"
    /\ UNCHANGED <<m_info, m_hist, m_daily, m_weekly_ref, m_monthly_ref, m_weekly,
                   m_monthly, m_return>>
    /\ UNCHANGED nonMetricVars

----------------------------------------------------------------------------
\* The correlation of lines 978-980 applied to one dictionary of close series.

\* the first entries of sectors_etfs, in the mapping's order
CORR_SECTORS == <<"Technology", "Healthcare", "Financials">>

\* the trading days a close series may have an observation at
CorrDays == {1, 2, 3}

\* hist["Close"] of a history with the given timestamps and closes
Series(stamps, closes) == [j \in 1..Len(stamps) |-> [ts |-> stamps[j], Close |-> closes[j]]]

\* the close series of a window: any subset of the days, closes 1..MaxClose
CorrSeries ==
    UNION { {Series(Ascending(T), closes) : closes \in [1..Cardinality(T) -> 1..MaxClose]} :
            T \in SUBSET CorrDays }

ApplyCorr ==
    /\ c_pc = "start"
    /\ c_corr' = CorrelationHeatmap(c_close, CORR_SECTORS)
    /\ c_pc' = "done"
    /\ UNCHANGED <<c_close, nonCorrVars>>

----------------------------------------------------------------------------
\* fetch_stock_data applied to one download.

\* the interval argument: update_dashboard's two, and the default
Granularities == {"1m", "15m", "1d"}

ApplyFetch ==
    /\ f_pc = "start"
    /\ f_out' = fetch_stock_data(f_raw, f_interval)
    /\ f_pc' = "done"
    /\ UNCHANGED <<f_raw, f_interval, nonFetchVars>>

----------------------------------------------------------------------------
\* update_refresh_interval (lines 451-458).

\* the value of the number input when it is cleared
NoValue == [k |-> "none"]

\* dcc.Interval(interval=60000)
DEFAULT_INTERVAL_MS == 60000

MS_PER_MINUTE == 60000

\* int(x), x >= 0: the fraction is dropped
Truncate(x) == x.n \div x.d

update_refresh_interval_NoClamp(interval_minutes) ==
    IF interval_minutes = NoValue
    THEN DEFAULT_INTERVAL_MS
    ELSE Truncate(interval_minutes) * MS_PER_MINUTE

update_refresh_interval(interval_minutes) ==
    IF interval_minutes = NoValue \/ interval_minutes.n < interval_minutes.d
    THEN DEFAULT_INTERVAL_MS
    ELSE Truncate(interval_minutes) * MS_PER_MINUTE

\* what the number input may hold: nothing, or a number of half minutes
RefreshInputs == {NoValue} \cup {Rat(h, 2) : h \in (0 - 2 * MaxMinutes)..(2 * MaxMinutes)}

\* the input changes and the callback sets the timer's interval
RefreshChanged ==
    /\ \E v \in RefreshInputs :
          /\ refresh_input' = v
          /\ refresh_interval' = update_refresh_interval(v)
    /\ UNCHANGED nonRefreshVars

----------------------------------------------------------------------------
\* The application: a callback is invoked with its inputs.

IdleDashboard ==
    /\ start_date = 0
    /\ end_date = 0
    /\ tickers = <<>>
    /\ short_ma = 0
    /\ long_ma = 0
    /\ chart_type = "line"
    /\ pc = "idle"

DashboardLocals ==
    /\ adjusted_start = 0
    /\ adjusted_end = 0
    /\ days_diff = 0
    /\ interval = "none"
    /\ xaxis_format = "none"
    /\ xaxis_title = "none"
    /\ ticker_list = <<>>
    /\ stock_charts = <<>>
    /\ stock_info_html = <<>>
    /\ idx = 1
    /\ df = NoFrame
    /\ sym = <<>>

SectorLocals ==
    /\ daily_perf = EmptyDict
    /\ weekly_perf = EmptyDict
    /\ monthly_perf = EmptyDict
    /\ quarter_return = EmptyDict
    /\ week_range = EmptyDict
    /\ month_range = EmptyDict
    /\ year_range = EmptyDict
    /\ yearly_return = EmptyDict
    /\ one_month_close = EmptyDict
    /\ one_year_close = EmptyDict
    /\ one_month_corr = NoMatrix
    /\ one_year_corr = NoMatrix
    /\ summary_data = <<>>
    /\ s_idx = 1
    /\ hist_1mo = <<>>
    /\ sec = [k \in 1..Len(SECTORS) |-> NewSector]

IdleMA ==
    /\ ma_df = NoFrame
    /\ ma_window = 1
    /\ ma_pc = "idle"

MetricResults ==
    /\ m_daily = Zero
    /\ m_weekly_ref = NoBar
    /\ m_monthly_ref = NoBar
    /\ m_weekly = Zero
    /\ m_monthly = Zero
    /\ m_return = Zero
    /\ m_range = Zero

IdleMetrics ==
    /\ m_info = [open |-> None, prev |-> None]
    /\ m_hist = <<>>
    /\ MetricResults
    /\ m_pc = "idle"

IdleCorr ==
    /\ c_close = EmptyDict
    /\ c_corr = NoMatrix
    /\ c_pc = "idle"

\* the layout: dcc.Input(id='refresh-interval', value=1) and the timer
IdleRefresh ==
    /\ refresh_input = Rat(1, 1)
    /\ refresh_interval = DEFAULT_INTERVAL_MS

IdleFetch ==
    /\ f_raw = NoFrame
    /\ f_interval = "none"
    /\ f_out = [raised |-> FALSE, data |-> NoFrame]
    /\ f_pc = "idle"

\* update_dashboard is invoked
InitDashboard ==
    /\ start_date \in Days
    /\ end_date \in Days
    /\ tickers \in SeqsUpTo(RawTokens, MaxTickers)
    /\ \E w \in WindowInputs : short_ma = w[1] /\ long_ma = w[2]
    /\ chart_type \in {"line", "candle"}
    /\ pc = "start"
    /\ DashboardLocals
    /\ SectorLocals
    /\ s_pc = "idle"
    /\ IdleMA
    /\ IdleMetrics
    /\ IdleCorr
    /\ IdleRefresh
    /\ IdleFetch

\* update_sector_analysis is invoked
InitSector ==
    /\ IdleDashboard
    /\ DashboardLocals
    /\ SectorLocals
    /\ s_pc = "start"
    /\ IdleMA
    /\ IdleMetrics
    /\ IdleCorr
    /\ IdleRefresh
    /\ IdleFetch

Init == InitDashboard \/ InitSector

Next == NextDashboard \/ NextSectorAnalysis

Spec == Init /\ [][Next]_vars

\* add_moving_average is applied to a frame of closes
InitMA ==
    /\ IdleDashboard
    /\ DashboardLocals
    /\ SectorLocals
    /\ s_pc = "idle"
    /\ IdleMetrics
    /\ IdleCorr
    /\ IdleRefresh
    /\ IdleFetch
    /\ \E close \in SeqsUpTo(0..MaxClose, MaxLen) :
          ma_df = [Close |-> close, columns |-> OHLCV \cup {"Date"}, ma |-> NoColumns]
    /\ ma_window \in 1..MaxWindow
    /\ ma_pc = "start"

NextMA == ApplyMA

SpecMA == InitMA /\ [][NextMA]_vars

\* the metrics are computed for one profile and one history slice
InitMetrics ==
    /\ IdleDashboard
    /\ DashboardLocals
    /\ SectorLocals
    /\ s_pc = "idle"
    /\ IdleMA
    /\ IdleCorr
    /\ IdleRefresh
    /\ IdleFetch
    /\ m_info \in LoopInfos
    /\ \E T \in StampSets : \E prices \in [1..Cardinality(T) -> PriceTriples] :
          m_hist = Slice(Ascending(T), prices)
    /\ MetricResults
    /\ m_pc = "daily"

NextMetrics == ApplyDaily \/ ApplyLookbacks \/ ApplyReturn \/ ApplyRange

SpecMetrics == InitMetrics /\ [][NextMetrics]_vars

\* the correlation is computed for one dictionary of close series
InitCorr ==
    /\ IdleDashboard
    /\ DashboardLocals
    /\ SectorLocals
    /\ s_pc = "idle"
    /\ IdleMA
    /\ IdleMetrics
    /\ IdleRefresh
    /\ IdleFetch
    /\ c_close \in [{CORR_SECTORS[k] : k \in 1..Len(CORR_SECTORS)} -> CorrSeries]
    /\ c_corr = NoMatrix
    /\ c_pc = "start"

NextCorr == ApplyCorr

SpecCorr == InitCorr /\ [][NextCorr]_vars

\* the page is loaded; the refresh input changes any number of times
InitRefresh ==
    /\ IdleDashboard
    /\ DashboardLocals
    /\ SectorLocals
    /\ s_pc = "idle"
    /\ IdleMA
    /\ IdleMetrics
    /\ IdleCorr
    /\ IdleFetch
    /\ IdleRefresh

NextRefresh == RefreshChanged

SpecRefresh == InitRefresh /\ [][NextRefresh]_vars

\* fetch_stock_data is called: yf.download has returned some table
InitFetch ==
    /\ IdleDashboard
    /\ DashboardLocals
    /\ SectorLocals
    /\ s_pc = "idle"
    /\ IdleMA
    /\ IdleMetrics
    /\ IdleCorr
    /\ IdleRefresh
    /\ \E close \in {<<>>, <<2, 4, 3>>}, label \in {"Date", "Datetime", "index"},
          tz \in {"naive", "UTC", "US/Eastern"}, multi \in BOOLEAN,
          missing \in {{}} \cup {{c} : c \in OHLCV} :
          f_raw = RawTable(close, (OHLCV \ missing) \cup {label}, tz, multi)
    /\ f_interval \in Granularities
    /\ f_out = [raised |-> FALSE, data |-> NoFrame]
    /\ f_pc = "start"

NextFetch == ApplyFetch

SpecFetch == InitFetch /\ [][NextFetch]_vars

----------------------------------------------------------------------------
\* Properties of update_dashboard.

\* update_dashboard has passed lines 584-595 (a non-empty ticker input)
Began == pc # "start" /\ tickers # <<>>

Returned == pc = "done" /\ tickers # <<>>

RolledBack(d, a) ==
    /\ Weekday(d) = 5 => a = d - 1 /\ Weekday(a) = 4
    /\ Weekday(d) = 6 => a = d - 2 /\ Weekday(a) = 4
    /\ Weekday(d) \in 0..4 => a = d
    /\ a <= d

\* C1: adjust_to_trading_day only rolls backward: a Saturday gives the day
\* before (a Friday), a Sunday the date two days before (a Friday), and a
\* Monday-to-Friday date is returned unchanged.
C1_RollBackOnly ==
    Began => RolledBack(start_date, adjusted_start) /\ RolledBack(end_date, adjusted_end)

C1_Witness ==
    Began /\ Weekday(start_date) = 5 /\ Weekday(end_date) = 6 /\ adjusted_start = adjusted_end

\* C2: the roll-back is idempotent and its result is never a Saturday or a
\* Sunday, so both dates of the request window are trading days.
C2_Idempotent ==
    Began => /\ adjust_to_trading_day(adjusted_start) = adjusted_start
             /\ adjust_to_trading_day(adjusted_end) = adjusted_end
             /\ Weekday(adjusted_start) \notin {5, 6}
             /\ Weekday(adjusted_end) \notin {5, 6}

C2_Witness ==
    Began /\ Weekday(start_date) = 6 /\ Weekday(end_date) = 0 /\ adjusted_end = end_date

\* C3: the granularity is decided once, from days_diff = adjusted end -
\* adjusted start: below 5 the 1-minute interval with the time-of-day axis,
\* from 5 on the coarser interval with the calendar-date axis; every ticker of
\* the batch is fetched at that interval; start = end = a Saturday gives the
\* previous Friday twice, days_diff = 0 and the 1-minute interval.
C3_Granularity ==
    Began =>
        /\ days_diff = adjusted_end - adjusted_start
        /\ days_diff < 5 => interval = "1m" /\ xaxis_format = "%H:%M" /\ xaxis_title = "Time"
        /\ days_diff >= 5 => interval = "15m" /\ xaxis_format = "%Y-%m-%d" /\ xaxis_title = "Date"
        /\ \A k \in 1..Len(sym) : sym[k].downloads > 0 => sym[k].interval = interval
        /\ (start_date = end_date /\ Weekday(start_date) = 5) =>
               /\ adjusted_start = start_date - 1
               /\ adjusted_end = start_date - 1
               /\ days_diff = 0
               /\ interval = "1m"

C3_Witness ==
    /\ Returned
    /\ start_date = end_date
    /\ Weekday(start_date) = 5
    /\ Len(sym) = 2
    /\ \A k \in 1..2 : sym[k].interval = "1m"

IsCard(e) == e.kind = "card"
IsError(e) == e.kind = "error"

Cards == SelectSeq(stock_info_html, IsCard)
Errors == SelectSeq(stock_info_html, IsError)

\* the entries of a result list that belong to position k of ticker_list
CountAt(list, k) == Cardinality({j \in 1..Len(list) : list[j].pos = k})

InRequestOrder(list) ==
    \A a, b \in 1..Len(list) : a < b => list[a].pos < list[b].pos

\* C4: whatever tickers fail to fetch, every ticker of the request is
\* processed (fetched once and brought to an end), a ticker whose fetch raised
\* has exactly one error entry, and the charts and cards of the tickers that
\* were analyzed come in request order, one each.
C4_FailureIsolation ==
    Returned =>
        /\ \A k \in 1..Len(ticker_list) :
              /\ sym[k].downloads = 1
              /\ sym[k].stage \in {"Analyzed", "Failed", "Empty"}
              /\ sym[k].failed_at = "fetch" =>
                    /\ CountAt(Errors, k) = 1
                    /\ CountAt(Cards, k) = 0
                    /\ CountAt(stock_charts, k) = 0
              /\ sym[k].stage = "Analyzed" =>
                    /\ CountAt(Cards, k) = 1
                    /\ CountAt(stock_charts, k) = 1
                    /\ CountAt(Errors, k) = 0
        /\ InRequestOrder(Cards)
        /\ InRequestOrder(stock_charts)
        /\ Len(Cards) = Cardinality({k \in 1..Len(sym) : sym[k].stage = "Analyzed"})
        /\ Len(Errors) = Cardinality({k \in 1..Len(sym) : sym[k].stage = "Failed"})

C4_Witness ==
    /\ Returned
    /\ Len(ticker_list) = 2
    /\ sym[1].failed_at = "fetch"
    /\ sym[2].stage = "Analyzed"
    /\ Len(Cards) = 1
    /\ Len(Errors) = 1

\* C5: a ticker that has an error entry has no chart and no info card.
C5_ErrorOnly ==
    \A j \in 1..Len(Errors) :
        /\ CountAt(stock_charts, Errors[j].pos) = 0
        /\ CountAt(Cards, Errors[j].pos) = 0

----------------------------------------------------------------------------
\* The per-symbol state machine.

DashMoves ==
    { <<"Requested", "Fetched">>, <<"Fetched", "Normalized">>, <<"Normalized", "Analyzed">>,
      <<"Requested", "Failed">>, <<"Fetched", "Failed">>, <<"Normalized", "Failed">> }

SectorMoves ==
    { <<"Requested", "Fetched">>, <<"Fetched", "Analyzed">>,
      <<"Requested", "Failed">>, <<"Fetched", "Failed">> }

\* one step of the symbols of update_dashboard: a legal move or none, and
\* nothing changes for a symbol that has ended
DashStep(moves, terminal) ==
    IF Len(sym) = 0
    THEN \A k \in 1..Len(sym') : sym'[k] = NewSym
    ELSE /\ Len(sym') = Len(sym)
         /\ \A k \in 1..Len(sym) :
               /\ sym'[k].stage = sym[k].stage \/ <<sym[k].stage, sym'[k].stage>> \in moves
               /\ sym[k].stage \in terminal => sym'[k] = sym[k]
               /\ sym'[k].downloads <= 1

SectorStep ==
    \A k \in 1..Len(SECTORS) :
        /\ sec'[k].stage = sec[k].stage \/ <<sec[k].stage, sec'[k].stage>> \in SectorMoves
        /\ sec[k].stage \in {"Analyzed", "Failed"} => sec'[k] = sec[k]

SectorsEnded ==
    s_pc \in {"after_loop", "heatmaps", "done"} => \A k \in 1..Len(SECTORS) : sec[k].stage \in {"Analyzed", "Failed"}

\* C6 as stated: every symbol of a batch of update_dashboard has ended
\* Analyzed or Failed when the callback returns.
C6_EndsAnalyzedOrFailed ==
    Returned => \A k \in 1..Len(sym) : sym[k].stage \in {"Analyzed", "Failed"}

\* C6, amended: in update_dashboard a symbol moves only along Requested ->
\* Fetched -> Normalized -> Analyzed, from Fetched to Empty (the fetch returned
\* no rows and the symbol is skipped), or from a stage before Analyzed to
\* Failed; Analyzed, Empty and Failed are final, every symbol has reached one
\* of the three when the callback returns, and a symbol that has ended is
\* never fetched again. In update_sector_analysis a sector moves Requested ->
\* Fetched -> Analyzed or to Failed, both final and one of them reached by
\* every sector when the loop ends, with no fetch after a failure.
C6_StateMachine ==
    /\ [][DashStep(DashMoves \cup {<<"Fetched", "Empty">>},
                   {"Analyzed", "Failed", "Empty"})]_vars
    /\ [][SectorStep]_vars
    /\ [](Returned => \A k \in 1..Len(sym) : sym[k].stage \in {"Analyzed", "Failed", "Empty"})
    /\ []SectorsEnded

C6_Witness ==
    /\ Returned
    /\ Len(sym) = 2
    /\ sym[1].stage = "Empty"
    /\ sym[2].stage = "Failed"
    /\ sym[2].failed_at = "info"

----------------------------------------------------------------------------
\* Properties of add_moving_average.

RECURSIVE SumOver(_, _, _)
SumOver(close, from, to) ==
    IF from > to THEN 0 ELSE close[from] + SumOver(close, from + 1, to)

Max(a, b) == IF a >= b THEN a ELSE b

\* C7: for a window w >= 1 the moving average has one value per row, none
\* absent; the value of row i is the mean of the closes of the rows
\* max(first, i - w + 1)..i, and the first value is the first close.
C7_MovingAverage ==
    ma_pc = "done" =>
        LET close == ma_df.Close
            out == ma_df.ma[<<"MA", ma_window>>]
        IN  /\ Len(out) = Len(close)
            /\ \A i \in 1..Len(close) :
                  LET from == Max(1, i - ma_window + 1)
                  IN  /\ IsFinite(out[i])
                      /\ out[i].n * (i - from + 1) = SumOver(close, from, i) * out[i].d
            /\ Len(close) > 0 => out[1] = Rat(close[1], 1)

C7_Witness ==
    /\ ma_pc = "done"
    /\ ma_window = 2
    /\ ma_df.Close = <<2, 0, 1>>
    /\ ma_df.ma[<<"MA", 2>>] = <<Rat(2, 1), Rat(1, 1), Rat(1, 2)>>

----------------------------------------------------------------------------
\* Properties of the sector metrics.

\* C8: the range of a slice is 0.0 when the slice is empty and otherwise
\* (max High - min Low) / min Low * 100, a finite number: nothing is divided
\* by zero whatever the Low values are.
C8_RangeNeverDividesByZero ==
    m_pc = "done" =>
        /\ IsFinite(m_range)
        /\ m_hist = <<>> => m_range = Zero
        /\ m_hist # <<>> =>
              m_range.n * MinLow(m_hist) = (MaxHigh(m_hist) - MinLow(m_hist)) * 100 * m_range.d

\* the delta is (new - old) / old * 100, and 0.0 when old is zero
DeltaIs(v, new, old) ==
    /\ IsFinite(v)
    /\ old = 0 => v = Zero
    /\ old # 0 => v.n * old = (new - old) * 100 * v.d

\* C9: every horizon's delta is (new - old) / old * 100, and exactly 0.0 when
\* old is zero or the slice is empty; none is infinite or NaN.
C9_DeltasDefined ==
    m_pc = "done" =>
        /\ IF m_info.open = None \/ m_info.prev = None
           THEN m_daily = Zero
           ELSE DeltaIs(m_daily, m_info.open, m_info.prev)
        /\ IF m_hist = <<>>
           THEN m_weekly = Zero /\ m_monthly = Zero /\ m_return = Zero
           ELSE LET last == m_hist[Len(m_hist)].Close
                IN  /\ DeltaIs(m_weekly, last, m_weekly_ref.Close)
                    /\ DeltaIs(m_monthly, last, m_monthly_ref.Close)
                    /\ DeltaIs(m_return, last, m_hist[1].Close)

\* the rows of the slice at or before (as-of - days)
Candidates(days) ==
    {j \in 1..Len(m_hist) : m_hist[j].ts <= m_hist[Len(m_hist)].ts - days}

Resolved(ref, days) ==
    /\ \E j \in 1..Len(m_hist) : m_hist[j] = ref
    /\ ref.ts <= m_hist[Len(m_hist)].ts
    /\ Candidates(days) # {} =>
          /\ ref.ts <= m_hist[Len(m_hist)].ts - days
          /\ \A j \in Candidates(days) : m_hist[j].ts <= ref.ts
    /\ Candidates(days) = {} => ref = m_hist[1]

\* C10: for the 7-day and the 30-day horizon the reference is the most recent
\* observation at or before (as-of - horizon), the earliest observation of
\* the slice when there is none; it is an observation of the slice, never
\* later than the as-of observation, and its close is the one compared.
C10_LookbackResolution ==
    (m_pc \in {"return", "range", "done"} /\ m_hist # <<>>) =>
        /\ Resolved(m_weekly_ref, WEEKLY_DAYS)
        /\ Resolved(m_monthly_ref, MONTHLY_DAYS)
        /\ m_weekly = PctChange(m_hist[Len(m_hist)].Close, m_weekly_ref.Close)
        /\ m_monthly = PctChange(m_hist[Len(m_hist)].Close, m_monthly_ref.Close)

C10_Witness ==
    /\ m_pc = "done"
    /\ Len(m_hist) = 3
    /\ m_hist[2].ts = m_hist[3].ts - WEEKLY_DAYS
    /\ m_weekly_ref = m_hist[2]
    /\ Candidates(MONTHLY_DAYS) = {}
    /\ m_monthly_ref = m_hist[1]
    /\ m_hist[1].Close # m_hist[2].Close

\* C11: the quarterly and the yearly return compare the first and the last
\* close of their slice: the result is (last - first) / first * 100, so a
\* slice going from 100 to 110 reports 10 and a slice with a single
\* observation reports 0.
C11_FirstLastReturn ==
    (m_pc \in {"range", "done"} /\ m_hist # <<>>) =>
        LET first == m_hist[1].Close
            last == m_hist[Len(m_hist)].Close
        IN  /\ first # 0 =>
                  /\ IsFinite(m_return)
                  /\ m_return.n * first = (last - first) * 100 * m_return.d
            /\ (first # 0 /\ 10 * last = 11 * first) => m_return = Rat(10, 1)
            /\ Len(m_hist) = 1 => m_return = Zero

----------------------------------------------------------------------------
\* Properties of the correlation matrices.

Range(seq) == {seq[k] : k \in 1..Len(seq)}

\* the keys of a dictionary of close series whose series has observations
WithData(close) == {sector \in DOMAIN close : close[sector] # <<>>}

\* the matrix has one row and one column for each symbol with data, no other
Covers(corr, close) ==
    /\ Range(corr.index) = WithData(close)
    /\ Len(corr.index) = Cardinality(WithData(close))
    /\ corr.present <=> WithData(close) # {}
    /\ DOMAIN corr.values = (1..Len(corr.index)) \X (1..Len(corr.index))

\* C12: each of the two matrices, independently of the other, has as its
\* symbols exactly the symbols whose close series of that window is not
\* empty; a sector whose fetch failed or that has no data in a window has no
\* row, column or filled-in value in that window's matrix.
C12_MatrixSymbols ==
    s_pc = "heatmaps" =>
        /\ Covers(one_month_corr, one_month_close)
        /\ Covers(one_year_corr, one_year_close)
        /\ \A k \in 1..Len(SECTORS) :
              sec[k].stage = "Failed" =>
                  /\ SECTORS[k] \notin Range(one_month_corr.index)
                  /\ SECTORS[k] \notin Range(one_year_corr.index)

C12_Witness ==
    /\ s_pc = "heatmaps"
    /\ one_month_corr.index = <<"Technology">>
    /\ one_year_corr.index = <<"Healthcare">>
    /\ one_month_close["Healthcare"] = <<>>
    /\ one_year_close["Healthcare"] # <<>>

\* the closes of the series are not all equal (so it has 2 observations or more)
Varies(series) == Cardinality({series[j].Close : j \in 1..Len(series)}) >= 2

\* the matrix is the 1 x 1 matrix of the symbol, holding v
OneByOne(corr, sector, v) ==
    /\ corr.present
    /\ corr.index = <<sector>>
    /\ DOMAIN corr.values = {<<1, 1>>}
    /\ corr.values[<<1, 1>>] = v

EmptyBelowTwo(corr, close) ==
    Cardinality(WithData(close)) < 2 => (corr = NoMatrix /\ Len(corr.index) = 0)

\* C14 as stated: when fewer than 2 symbols have data in a window, that
\* window's matrix is empty (zero rows and columns), never a 1 x 1 matrix.
C14_FewerThanTwoIsEmpty ==
    s_pc = "heatmaps" =>
        /\ EmptyBelowTwo(one_month_corr, one_month_close)
        /\ EmptyBelowTwo(one_year_corr, one_year_close)

\* no symbol with data: no matrix; exactly one: the 1 x 1 matrix of that symbol
SmallMatrix(corr, close) ==
    /\ WithData(close) = {} => corr = NoMatrix
    /\ Cardinality(WithData(close)) = 1 =>
          /\ corr.present
          /\ Len(corr.index) = 1
          /\ corr.index[1] \in WithData(close)
          /\ DOMAIN corr.values = {<<1, 1>>}

\* C14, amended: a window's matrix is empty (no matrix is computed, the heat
\* map is blank) only when no symbol has data in the window; when exactly one
\* symbol has data the matrix is the 1 x 1 matrix of that symbol.
C14_SmallMatrices ==
    s_pc = "heatmaps" =>
        /\ SmallMatrix(one_month_corr, one_month_close)
        /\ SmallMatrix(one_year_corr, one_year_close)

C14_Witness ==
    /\ s_pc = "heatmaps"
    /\ WithData(one_month_close) = {"Healthcare"}
    /\ one_month_corr.present /\ one_month_corr.index = <<"Healthcare">>
    /\ WithData(one_year_close) = {}
    /\ one_year_corr = NoMatrix

\* the closes of a series at the timestamps of T, in ascending order
ValuesOn(series, T) ==
    LET rows == Ascending(T) IN [j \in 1..Len(rows) |-> CloseAt(series, rows[j])]

\* the timestamps at which every symbol of the matrix has an observation
CommonToAll(corr, close) ==
    {t \in CorrDays : \A k \in 1..Len(corr.index) : t \in Stamps(close[corr.index[k]])}

\* the timestamps at which the two symbols a and b both have an observation
CommonToPair(close, a, b) == Stamps(close[a]) \cap Stamps(close[b])

\* C15 as stated: the aligned table is an inner join on the timestamp: every
\* pair's coefficient is computed over the same timestamps, those at which
\* every included symbol has an observation.
C15_InnerJoin ==
    (c_pc = "done" /\ c_corr.present) =>
        \A p \in DOMAIN c_corr.values :
            LET a == c_corr.index[p[1]]
                b == c_corr.index[p[2]]
                T == CommonToAll(c_corr, c_close)
            IN  c_corr.values[p] = nancorr(ValuesOn(c_close[a], T), ValuesOn(c_close[b], T))

\* C15, amended: a timestamp contributes to the coefficient of a pair exactly
\* when both symbols of the pair have an observation at it, whatever the
\* other symbols have there; pairs may be computed over different timestamps.
C15_PairwiseComplete ==
    (c_pc = "done" /\ c_corr.present) =>
        \A p \in DOMAIN c_corr.values :
            LET a == c_corr.index[p[1]]
                b == c_corr.index[p[2]]
                T == CommonToPair(c_close, a, b)
            IN  c_corr.values[p] = nancorr(ValuesOn(c_close[a], T), ValuesOn(c_close[b], T))

C15_Witness ==
    /\ c_pc = "done"
    /\ Len(c_corr.index) = 3
    /\ Stamps(c_close["Technology"]) = CorrDays
    /\ Stamps(c_close["Healthcare"]) = CorrDays
    /\ Stamps(c_close["Financials"]) = {1}
    /\ c_corr.values[<<1, 2>>] = One
    /\ c_corr.values[<<1, 3>>] = NaN

\* a number in [-1, 1]: cov^2 <= var_x * var_y
InUnitRange(v) == v.k = "num" /\ v.sign \in {-1, 0, 1} /\ v.sq.n <= v.sq.d

Symmetric(corr) ==
    \A p \in DOMAIN corr.values : corr.values[p] = corr.values[<<p[2], p[1]>>]

----------------------------------------------------------------------------
\* Properties of the inputs.

\* the elements of a list in the order of their first occurrence
FirstOccurrences(list) ==
    LET f[i \in 0..Len(list)] ==
            IF i = 0 THEN <<>>
            ELSE IF \E j \in 1..(i - 1) : list[j] = list[i] THEN f[i - 1]
            ELSE Append(f[i - 1], list[i])
    IN  f[Len(list)]

\* C17: the parsed symbol list is an ordered set: the tickers of the input in
\* input order, stripped and upper-cased, none occurring twice, so each
\* distinct symbol is fetched once per refresh.
C17_OrderedSet ==
    Began =>
        /\ ticker_list = FirstOccurrences([k \in 1..Len(tickers) |-> StripUpper(tickers[k])])
        /\ \A i, j \in 1..Len(ticker_list) : i # j => ticker_list[i] # ticker_list[j]
        /\ \A i, j \in 1..Len(sym) :
              (i # j /\ ticker_list[i] = ticker_list[j]) =>
                  sym[i].downloads + sym[j].downloads <= 1

\* C18: the refresh interval is never below one minute: a whole number n >= 1
\* of minutes gives n * 60000 ms, an absent input or one below 1 gives 60000
\* ms, and the result is always a positive multiple of 60000 ms (a fraction
\* of a minute above 1 is dropped).
C18_RefreshInterval ==
    /\ refresh_interval >= MS_PER_MINUTE
    /\ refresh_interval % MS_PER_MINUTE = 0
    /\ IF refresh_input = NoValue
       THEN refresh_interval = 60000
       ELSE LET n == refresh_input.n
                d == refresh_input.d
            IN  /\ n < d => refresh_interval = 60000
                /\ (n >= d /\ d = 1) => refresh_interval = n * 60000
                /\ n >= d => /\ refresh_interval * d <= n * 60000
                             /\ n * 60000 < (refresh_interval + 60000) * d

C18_Witness ==
    /\ refresh_input = Rat(MaxMinutes, 1)
    /\ refresh_interval = MaxMinutes * 60000
    /\ refresh_interval > DEFAULT_INTERVAL_MS

----------------------------------------------------------------------------
\* Properties of fetch_stock_data.

\* the granularities below one day
Intraday == {"1m", "15m"}

\* C19: every non-empty series fetched at an intraday granularity has all its
\* timestamps in US/Eastern, the naive ones having been taken as UTC (the
\* instants are kept); at the daily granularity the timestamps are left as
\* they came.
C19_IntradayEastern ==
    (f_pc = "done" /\ ~f_out.raised /\ ~IsEmpty(f_out.data)) =>
        IF f_interval \in Intraday
        THEN /\ f_out.data.tz = "US/Eastern"
             /\ \A j \in 1..Len(f_raw.Date) :
                   f_out.data.Date[j] = f_raw.Date[j] - UtcOffset(f_raw.tz)
                                        + UtcOffset("US/Eastern")
        ELSE f_out.data.tz = f_raw.tz /\ f_out.data.Date = f_raw.Date

\* C20: a download that, once its labels are flattened and Datetime is
\* renamed, lacks one of Open, High, Low, Close, Volume fails at
\* normalization: no series is returned for the symbol, so no frame without a
\* mandatory column reaches the chart or the profile fetch (the symbol has
\* ended Failed with its error recorded instead).
C20_MissingColumnFails ==
    pc \in {"chart", "info"} => OHLCV \subseteq df.columns

\* the step taken on a download without rows: nothing is raised, the symbol
\* ends Empty, no chart, card or error is added, and the loop moves on
EmptyIsSkipped ==
    (pc = "normalize" /\ IsEmpty(df)) =>
        /\ sym'[idx].stage = "Empty"
        /\ sym'[idx].failed_at = "none"
        /\ stock_charts' = stock_charts
        /\ stock_info_html' = stock_info_html
        /\ idx' = idx + 1
        /\ pc' = IF idx < Len(ticker_list) THEN "fetch" ELSE "done"

\* C21: a download with no rows is not an error: fetch_stock_data returns the
\* empty table without raising, and update_dashboard gives the symbol no
\* chart, no card and no error entry and goes on with the next symbol.
C21_EmptyIsSoft ==
    /\ [][EmptyIsSkipped]_vars
    /\ [](\A k \in 1..Len(sym) :
             sym[k].stage = "Empty" =>
                 /\ CountAt(stock_charts, k) = 0
                 /\ CountAt(stock_info_html, k) = 0
                 /\ sym[k].info_calls = 0
                 /\ (idx > k \/ pc = "done"))

C21_Witness ==
    /\ Returned
    /\ Len(sym) = 2
    /\ sym[1].stage = "Empty"
    /\ sym[2].stage = "Analyzed"
    /\ Errors = <<>>
    /\ Len(stock_charts) = 1
    /\ stock_charts[1].pos = 2

----------------------------------------------------------------------------
\* Properties of the two moving averages of update_dashboard.

\* the windows of lines 606-607
ShortWindow == IF short_ma # 0 THEN short_ma ELSE DEFAULT_SHORT
LongWindow == IF long_ma # 0 THEN long_ma ELSE DEFAULT_LONG

\* the step that adds the two averages leaves the rows and the downloaded
\* columns as they were
RowsKept ==
    (pc = "chart" /\ pc' = "info") =>
        /\ df'.Close = df.Close
        /\ df'.Date = df.Date
        /\ df'.columns = df.columns
        /\ df'.tz = df.tz
        /\ DOMAIN df.ma = {}

\* C22: the short and the long moving average are computed independently:
\* each call adds exactly one column, named after its prefix and window, and
\* leaves the rows, the downloaded columns and the column added before
\* unchanged, so both averages are there after the two calls, also when the
\* short and the long window are equal.
C22_IndependentAverages ==
    /\ [][RowsKept]_vars
    /\ [](pc = "info" =>
             /\ DOMAIN df.ma = {<<"Short_MA", ShortWindow>>, <<"Long_MA", LongWindow>>}
             /\ Cardinality(DOMAIN df.ma) = 2
             /\ df.ma[<<"Short_MA", ShortWindow>>] = RollingMean(df.Close, ShortWindow)
             /\ df.ma[<<"Long_MA", LongWindow>>] = RollingMean(df.Close, LongWindow)
             /\ Len(df.ma[<<"Short_MA", ShortWindow>>]) = Len(df.Close)
             /\ Len(df.ma[<<"Long_MA", LongWindow>>]) = Len(df.Close))

C22_Witness ==
    /\ pc = "info"
    /\ ShortWindow = 2 /\ LongWindow = 2
    /\ Cardinality(DOMAIN df.ma) = 2
    /\ df.ma[<<"Short_MA", 2>>] = <<Rat(2, 1), Rat(3, 1), Rat(7, 2)>>
    /\ df.ma[<<"Long_MA", 2>>] = df.ma[<<"Short_MA", 2>>]

----------------------------------------------------------------------------
\* Properties of the sector loop.

\* the eight metric maps, in the order of the summary's columns
MetricMapList ==
    <<daily_perf, weekly_perf, monthly_perf, quarter_return, yearly_return,
      week_range, month_range, year_range>>

\* the eight formatted cells of a summary row, in the same order
Cells(row) ==
    <<row.Daily, row.Weekly, row.Monthly, row.Quarter, row.Yearly,
      row.WeekRange, row.MonthRange, row.YearRange>>

ZeroCell == [k |-> "fixed", hundredths |-> 0]

\* C23: the sector loop is total: whatever sectors fail and at whatever step,
\* after the loop every sector of the mapping has a value in each of the
\* eight metric maps and in both close-series maps, and no other key is in
\* them; a failed sector has 0.0 for all eight metrics (what was computed
\* before the failure is overwritten) and an empty close series for both
\* windows; and the summary has exactly one row per sector, in mapping order.
C23_SectorLoopTotal ==
    /\ s_pc \in {"after_loop", "heatmaps", "done"} =>
          /\ \A i \in 1..Len(MetricMapList) : DOMAIN MetricMapList[i] = Range(SECTORS)
          /\ DOMAIN one_month_close = Range(SECTORS)
          /\ DOMAIN one_year_close = Range(SECTORS)
          /\ \A k \in 1..Len(SECTORS) :
                sec[k].stage = "Failed" =>
                    /\ \A i \in 1..Len(MetricMapList) : MetricMapList[i][SECTORS[k]] = Zero
                    /\ one_month_close[SECTORS[k]] = <<>>
                    /\ one_year_close[SECTORS[k]] = <<>>
    /\ s_pc = "done" =>
          /\ Len(summary_data) = Len(SECTORS)
          /\ \A k \in 1..Len(SECTORS) :
                /\ summary_data[k].Sector = SECTORS[k]
                /\ summary_data[k].Ticker = ETF(SECTORS[k])
                /\ \A i \in 1..Len(MetricMapList) :
                      Cells(summary_data[k])[i] = Format2f(MetricMapList[i][SECTORS[k]])
                /\ sec[k].stage = "Failed" =>
                      \A i \in 1..Len(MetricMapList) : Cells(summary_data[k])[i] = ZeroCell

C23_Witness ==
    /\ s_pc = "done"
    /\ sec[1].stage = "Failed" /\ sec[1].fetches = 6
    /\ sec[2].stage = "Analyzed"
    /\ daily_perf["Healthcare"] = Rat(50, 1)
    /\ summary_data[1].Daily = ZeroCell
    /\ summary_data[2].Daily = [k |-> "fixed", hundredths |-> 5000]
    /\ summary_data[2].Sector = "Healthcare"

====
